---------------------------- MODULE Spec2Model ----------------------------
(***************************************************************************)
(* Model of programs/swap/src/lib.rs: the registry (SwapAccount), the      *)
(* initialize instruction and the swap_tokens instruction.                 *)
(*                                                                         *)
(* One swap_tokens call is a sequence of steps cut at its cross-program    *)
(* invocations (token transfer, router call, ...).  The ledger is the      *)
(* token balances `bal`, the lamports of user_sol_account and the registry *)
(* record.  A step that returns Err ends the call and the ledger restores  *)
(* the balances of the snapshot taken when the call began.                 *)
(*                                                                         *)
(* Spec   : the handler's own logic.  The account constraints of the       *)
(*          SwapTokens struct are checked; a cross-program invocation may  *)
(*          return Ok or Err as the callee decides.  What the host ledger  *)
(*          enforces on top of that (the Program<System> identity of       *)
(*          jupiter_program, the signer privileges of an invocation) is    *)
(*          recorded per invocation but does not stop the call.            *)
(* SpecArith : the two fixed-point computations alone, over every value of *)
(*          a WordBits-wide unsigned integer.                              *)
(***************************************************************************)
EXTENDS Integers, Sequences, FiniteSets, TLC

\* ------------------------------------------------------------ bounds
\* Width of the scaled-down "u64"; the "u128" is twice as wide.
WordBits == 10
\* input_amount ranges over q * 100 and q * 100 + 1, q in 0..MaxQuot.
MaxQuot == 1
\* A router conversion credits nothing or MaxOut units.
MaxOut == 3
\* Lamports held by user_sol_account before the first call.
InitialLamports == 1
\* Number of swap_tokens calls in one behaviour.
MaxCalls == 2

\* ------------------------------------------------------------ identities
JUPITER_PROGRAM_ID == "JUP6"
USDC_MINT == "USDC"
SYSTEM_PROGRAM_ID == "SYS1"
\* The registry's address: the program-derived address of seeds ["swap"].
SwapPda == "PDA"
User == "USER"
Wallets == {"K1", "K2"}
NoKey == "NONE"
InputMint == "WIF"
OtherMint == "OTHER"
Owners == {User, SwapPda} \cup Wallets
Mints == {InputMint, USDC_MINT, OtherMint}

\* The associated token account of (owner, mint): its address is derived from
\* the pair, so the pair stands for the address.
Ata(owner, mint) == <<owner, mint>>
TokenAccounts == Owners \X Mints

\* ------------------------------------------------------------ arithmetic
None == -1
U64Max == 2^WordBits - 1
U128Max == 2^(2 * WordBits) - 1

checked_mul(a, b, max) == IF a = None \/ a * b > max THEN None ELSE a * b
checked_div(a, b) == IF a = None \/ b = 0 THEN None ELSE a \div b
checked_sub(a, b) == IF a = None \/ b = None \/ b > a THEN None ELSE a - b
\* `as u64`: keeps the low WordBits bits.
AsU64(v) == IF v = None THEN None ELSE v % (U64Max + 1)

CommissionTenPercent(input_amount) ==
    AsU64(checked_div(checked_mul(input_amount, 10, U128Max), 100))

CommissionRoundedUp(input_amount) ==
    AsU64(checked_div(checked_sub(checked_mul(input_amount + 100, 1, U128Max), 1),
                      100))

\* lib.rs 110-113
Commission(input_amount) ==
    AsU64(checked_div(checked_mul(input_amount, 1, U128Max), 100))

\* lib.rs 115-116
AmountAfterCommission(input_amount) ==
    checked_sub(input_amount, Commission(input_amount))

ReferralShareNarrow(usdc_balance) ==
    AsU64(checked_div(checked_mul(usdc_balance, 40, U64Max), 100))

\* lib.rs 199-202
ReferralShare(usdc_balance) ==
    AsU64(checked_div(checked_mul(usdc_balance, 40, U128Max), 100))

\* lib.rs 204-205
AdminShare(usdc_balance) ==
    checked_sub(usdc_balance, ReferralShare(usdc_balance))

\* ------------------------------------------------------------ state
VARIABLES
    swap_account,   \* the registry record: [init, admin, referral]
    bal,            \* token balance of every token account
    lamports,       \* lamports of user_sol_account
    pc,             \* position of the swap_tokens call in progress, or "Idle"
    args,           \* input_amount, min_output_amount, route_data of the call
    ctx,            \* the accounts presented with the call
    loaded,         \* the Account<TokenAccount> copies deserialized at entry
    locals,         \* commission, amount_after_commission, referral_usdc, admin_usdc
    result,         \* how the last instruction ended: "Ok" or the error
    snap,           \* balances when the call began (what the ledger restores)
    cpi,            \* the cross-program invocations the call issued, in order
    failed,         \* the step of the call that returned Err, or "none"
    lastOp,         \* the last instruction dispatched
    calls,          \* swap_tokens calls dispatched so far
    init_args,      \* the arguments and signers of the last initialize call
    operand,        \* SpecArith: the integer the computations are applied to
    computed        \* SpecArith: their results

vars == <<swap_account, bal, lamports, pc, args, ctx, loaded, locals, result,
          snap, cpi, failed, lastOp, calls, init_args, operand, computed>>


\* ------------------------------------------------------------ inputs
Amounts == {q * 100 + r : q \in 0..MaxQuot, r \in 0..1}
MinOutputs == {0, 1, MaxOut}
RouterOutputs == {0, MaxOut}

\* route_data is opaque to the program and handed to the router unchanged.  It
\* is modelled by the one thing the router takes from it that the ledger sees:
\* the amount to draw from the source account.  A client builds the route for
\* the commission, for the net amount or for the whole input.
RoutePayloads(input_amount) ==
    LET c == Commission(input_amount)
    IN  {c, input_amount - c, input_amount}

NoArgs == [input_amount |-> 0, min_output_amount |-> 0, route_data |-> 0]
NoLocals == [commission |-> 0, amount_after_commission |-> 0,
             usdc_balance |-> 0, referral_usdc |-> 0, admin_usdc |-> 0]
NoLoaded == [user_token_account |-> 0, commission_usdc_account |-> 0]

\* The accounts a well-formed client presents.
GoodCtx(reg) ==
    [ swap_account             |-> SwapPda,
      user                     |-> User,
      input_token_mint         |-> InputMint,
      user_token_account       |-> Ata(User, InputMint),
      swap_token_account       |-> Ata(SwapPda, InputMint),
      commission_token_account |-> Ata(SwapPda, InputMint),
      commission_usdc_account  |-> Ata(SwapPda, USDC_MINT),
      referral_usdc_account    |-> Ata(reg.referral, USDC_MINT),
      admin_usdc_account       |-> Ata(reg.admin, USDC_MINT),
      usdc_mint                |-> USDC_MINT,
      jupiter_program          |-> JUPITER_PROGRAM_ID ]

\* The same accounts, all settlement accounts taken for another mint.
OtherMintCtx(reg) ==
    [ GoodCtx(reg) EXCEPT
        !.usdc_mint = OtherMint,
        !.commission_usdc_account = Ata(SwapPda, OtherMint),
        !.referral_usdc_account = Ata(reg.referral, OtherMint),
        !.admin_usdc_account = Ata(reg.admin, OtherMint) ]

\* Contexts that differ from the well-formed one in one presented account (or
\* in the settlement mint throughout).
BadContexts(reg) ==
    LET g == GoodCtx(reg)
    IN  { [g EXCEPT !.jupiter_program = SYSTEM_PROGRAM_ID],
          [g EXCEPT !.usdc_mint = OtherMint],
          OtherMintCtx(reg),
          [g EXCEPT !.swap_token_account = Ata(User, InputMint)],
          [g EXCEPT !.commission_token_account = Ata(User, InputMint)],
          [g EXCEPT !.user_token_account = Ata(SwapPda, InputMint)],
          [g EXCEPT !.commission_usdc_account = Ata(User, USDC_MINT)] }

\* Keys a client can present as jupiter_program.
ProgramKeys == {JUPITER_PROGRAM_ID, SYSTEM_PROGRAM_ID} \cup Wallets

\* The well-formed accounts and their one-account deviations, each with every
\* key as jupiter_program.
PresentableContexts(reg) ==
    { [c EXCEPT !.jupiter_program = p] :
        c \in {GoodCtx(reg)} \cup BadContexts(reg), p \in ProgramKeys }

\* The calls dispatched: every argument combination with the well-formed
\* accounts, and well-formed arguments with each of the other contexts.
SwapCalls(reg) ==
    UNION { { [input_amount |-> a, min_output_amount |-> m, route_data |-> r,
                accounts |-> GoodCtx(reg)] :
                   m \in MinOutputs, r \in RoutePayloads(a) } : a \in Amounts }
    \cup
    { [input_amount |-> 100, min_output_amount |-> 1,
       route_data |-> Commission(100), accounts |-> c] : c \in BadContexts(reg) }

\* ------------------------------------------------------------ accounts
RECURSIVE FirstError(_)
\* The first check of a sequence that did not pass: checks run in order and the
\* first failure returns.
FirstError(checks) ==
    IF checks = <<>> THEN "Ok"
    ELSE IF Head(checks) # "Ok" THEN Head(checks)
    ELSE FirstError(Tail(checks))

Require(cond, err) == IF cond THEN "Ok" ELSE err

AssociatedUnchecked(acct, authority, mint) == "Ok"
\* associated_token::mint / associated_token::authority on an existing account.
AssociatedCheck(acct, authority, mint) ==
    IF acct[1] # authority THEN "ConstraintTokenOwner"
    ELSE IF acct # Ata(authority, mint) THEN "ConstraintAssociated"
    ELSE "Ok"

\* Account<'info, SwapAccount>: the registry must exist to be deserialized.
AccountLoad(c, reg) == Require(reg.init, "AccountNotInitialized")

\* Program<'info, System>: the account presented as jupiter_program must be the
\* System program.
ProgramIdCheck(c) ==
    Require(c.jupiter_program = SYSTEM_PROGRAM_ID, "InvalidProgramId")

\* The #[account(...)] constraints of SwapTokens, in field order.
Constraints(c, reg) ==
    FirstError(<<
        Require(c.swap_account = SwapPda, "ConstraintSeeds"),
        Require(c.user_token_account[2] = c.input_token_mint, "ConstraintRaw"),
        Require(c.user_token_account[1] = c.user, "ConstraintRaw"),
        AssociatedCheck(c.swap_token_account, c.swap_account, c.input_token_mint),
        AssociatedCheck(c.commission_token_account, c.swap_account, c.input_token_mint),
        AssociatedCheck(c.commission_usdc_account, c.swap_account, c.usdc_mint),
        AssociatedCheck(c.referral_usdc_account, reg.referral, c.usdc_mint),
        AssociatedCheck(c.admin_usdc_account, reg.admin, c.usdc_mint),
        Require(c.usdc_mint = USDC_MINT, "ConstraintRaw"),
        Require(c.jupiter_program = JUPITER_PROGRAM_ID, "ConstraintRaw") >>)

\* Account validation before the handler runs: deserialization, then constraints.
TryAccounts(c, reg, hostChecksProgramId) ==
    FirstError(<<
        AccountLoad(c, reg),
        IF hostChecksProgramId THEN ProgramIdCheck(c) ELSE "Ok",
        Constraints(c, reg) >>)

\* ------------------------------------------------------------ handler checks
AmountValidOrZero(amount) == amount >= 0
\* require_gt!(amount, 0, ...)
AmountValid(amount) == amount > 0

BalanceStrictlyGreater(user_balance, input_amount) == user_balance > input_amount
\* require_gte!(user_balance, input_amount, ...)
BalanceSufficient(user_balance, input_amount) == user_balance >= input_amount

\* require_gte!(user_sol_balance, min_output_amount, ...)
SlippageOk(user_sol_balance, min_output_amount) ==
    user_sol_balance >= min_output_amount

\* lib.rs 89-120: the handler's validations and the commission computation, in
\* the order of the code.
HandlerValidation(a, c, user_balance) ==
    FirstError(<<
        Require(AmountValid(a.input_amount), "InvalidAmount"),
        Require(AmountValid(a.min_output_amount), "InvalidMinOutAmount"),
        Require(c.jupiter_program = JUPITER_PROGRAM_ID, "InvalidJupiterRoute"),
        Require(c.usdc_mint = USDC_MINT, "InvalidJupiterRoute"),
        Require(Commission(a.input_amount) # None, "CommissionOverflow"),
        Require(AmountAfterCommission(a.input_amount) # None, "CommissionOverflow"),
        Require(BalanceSufficient(user_balance, a.input_amount), "InsufficientBalance") >>)

\* lib.rs 196: the amount field of the Account<TokenAccount> copy made when the
\* accounts were deserialized; the copy is not reloaded after an invocation.
UsdcBalanceRead(loadedAmount, ledgerAmount) == loadedAmount

PropagatesNever(res) == FALSE
\* The `?` after a fallible step: an Err returns from the handler.
Propagates(res) == res # "Ok"

\* ------------------------------------------------------------ initial state
NoRegistry == [init |-> FALSE, admin |-> NoKey, referral |-> NoKey]
NoInitArgs == [admin |-> NoKey, referral |-> NoKey,
               admin_signer |-> NoKey, referral_signer |-> NoKey]
NoCtx == GoodCtx(NoRegistry)

\* What the caller's source account holds before the first call.
InitialUserBalance == 100 * MaxQuot
\* The signer that pays for initialize.
AdminSigners == {"K1"}

NotComputed == [commission_done |-> FALSE, shares_done |-> FALSE,
                commission |-> 0, amount_after_commission |-> 0,
                referral_usdc |-> 0, admin_usdc |-> 0]

HandlerInit ==
    /\ pc = "Idle"
    /\ args = NoArgs
    /\ ctx = NoCtx
    /\ loaded = NoLoaded
    /\ locals = NoLocals
    /\ result = "none"
    /\ cpi = <<>>
    /\ failed = "none"
    /\ lastOp = "none"
    /\ calls = 0
    /\ init_args = NoInitArgs

Init ==
    /\ swap_account = NoRegistry
    /\ bal = [t \in TokenAccounts |->
                 IF t = Ata(User, InputMint) THEN InitialUserBalance ELSE 0]
    /\ lamports = InitialLamports
    /\ snap = [bal |-> bal, lamports |-> lamports]
    /\ HandlerInit
    /\ operand = 0
    /\ computed = NotComputed

\* ------------------------------------------------------------ initialize
\* lib.rs 50-58 with the Initialize accounts (237-259): `init` creates the
\* registry at the derived address and fails when the address is in use; a
\* handler error undoes the creation.
InitializeSkipsReferral(reg, admin, referral, admin_signer, referral_signer) ==
    FirstError(<<
        Require(~reg.init, "AccountAlreadyInUse"),
        Require(admin = admin_signer, "InvalidAdmin") >>)

InitializeIfNeeded(reg, admin, referral, admin_signer, referral_signer) ==
    FirstError(<<
        Require(admin = admin_signer, "InvalidAdmin"),
        Require(referral = referral_signer, "InvalidReferral") >>)

InitializeResult(reg, admin, referral, admin_signer, referral_signer) ==
    FirstError(<<
        Require(~reg.init, "AccountAlreadyInUse"),
        Require(admin = admin_signer, "InvalidAdmin"),
        Require(referral = referral_signer, "InvalidReferral") >>)

Initialize ==
    /\ pc = "Idle"
    /\ \E admin \in Wallets, referral \in Wallets,
          admin_signer \in AdminSigners, referral_signer \in Wallets :
          LET res == InitializeResult(swap_account, admin, referral,
                                      admin_signer, referral_signer)
          IN  /\ init_args' = [admin |-> admin, referral |-> referral,
                               admin_signer |-> admin_signer,
                               referral_signer |-> referral_signer]
              /\ result' = res
              /\ swap_account' =
                    IF res = "Ok"
                    THEN [init |-> TRUE, admin |-> admin, referral |-> referral]
                    ELSE swap_account
    /\ lastOp' = "initialize"
    /\ args' = NoArgs
    /\ ctx' = NoCtx
    /\ loaded' = NoLoaded
    /\ locals' = NoLocals
    /\ cpi' = <<>>
    /\ failed' = "none"
    /\ UNCHANGED <<bal, lamports, pc, snap, calls, operand, computed>>

\* ------------------------------------------------------------ swap_tokens
\* A step ended with `res`: an Err that propagates returns from the handler and
\* the ledger restores the balances of `snap`; otherwise the call goes on to
\* `next` with the step's effects.
StepEnds(res, step, next, newBal, newLamports) ==
    /\ failed' = IF res = "Ok" THEN failed ELSE step
    /\ IF Propagates(res)
       THEN /\ pc' = "Idle"
            /\ result' = res
            /\ bal' = snap.bal
            /\ lamports' = snap.lamports
       ELSE /\ pc' = next
            /\ result' = result
            /\ bal' = newBal
            /\ lamports' = newLamports

\* Dispatch of one swap_tokens instruction: the accounts are validated and the
\* token accounts deserialized before the handler body runs.
Dispatch(hostChecksProgramId) ==
    /\ pc = "Idle"
    /\ calls < MaxCalls
    /\ \E call \in SwapCalls(swap_account) :
          LET c == call.accounts
              res == TryAccounts(c, swap_account, hostChecksProgramId)
          IN  /\ args' = [input_amount |-> call.input_amount,
                          min_output_amount |-> call.min_output_amount,
                          route_data |-> call.route_data]
              /\ ctx' = c
              /\ loaded' = IF res = "Ok"
                           THEN [user_token_account |-> bal[c.user_token_account],
                                 commission_usdc_account |->
                                     bal[c.commission_usdc_account]]
                           ELSE NoLoaded
              /\ pc' = IF res = "Ok" THEN "Entered" ELSE "Idle"
              /\ result' = IF res = "Ok" THEN "pending" ELSE res
              /\ failed' = IF res = "Ok" THEN "none" ELSE "accounts"
    /\ snap' = [bal |-> bal, lamports |-> lamports]
    /\ cpi' = <<>>
    /\ locals' = NoLocals
    /\ lastOp' = "swap_tokens"
    /\ calls' = calls + 1
    /\ init_args' = NoInitArgs
    /\ UNCHANGED <<swap_account, bal, lamports, operand, computed>>

\* Spec: the handler's logic, whatever the identity of jupiter_program's type.
BeginSwap == Dispatch(FALSE)

\* SpecLedger: dispatch as the deployed program does it, jupiter_program being
\* declared Program<'info, System>.
BeginSwapOnLedger == Dispatch(TRUE)

SwapAccountOverwritten(reg, c) == [reg EXCEPT !.referral = c.user]
\* lib.rs 107: the handler borrows the registry immutably and never writes it.
SwapAccountBorrow(reg, c) == reg

TransferInNetAmount(a) == AmountAfterCommission(a.input_amount)
\* lib.rs 132: the amount of the transfer out of the caller's account.
TransferInAmount(a) == a.input_amount

\* lib.rs 89-120
Validate ==
    /\ pc = "Entered"
    /\ swap_account' = SwapAccountBorrow(swap_account, ctx)
    /\ locals' = [locals EXCEPT
                    !.commission = Commission(args.input_amount),
                    !.amount_after_commission =
                        AmountAfterCommission(args.input_amount)]
    /\ StepEnds(HandlerValidation(args, ctx, loaded.user_token_account),
                "validate", "Validated", bal, lamports)
    /\ UNCHANGED <<args, ctx, loaded, snap, cpi, lastOp, calls,
                   init_args, operand, computed>>

\* One cross-program invocation as the ledger saw it.
Invocation(step, program, source, destination, amount, signer, seeds, res, moved, credited) ==
    [ step |-> step, program |-> program, source |-> source,
      destination |-> destination, amount |-> amount, signer |-> signer,
      signer_seeds |-> seeds, result |-> res, moved |-> moved,
      credited |-> credited ]

\* token::transfer: the token program moves `amount` when the source holds it
\* and the program accepts the instruction.
TransferResult(b, from, amount, accepted) ==
    IF accepted /\ b[from] >= amount THEN "Ok" ELSE "TokenError"

TransferEffect(b, from, to, amount) ==
    [b EXCEPT ![from] = @ - amount, ![to] = @ + amount]

\* lib.rs 122-133
TransferIn ==
    /\ pc = "Validated"
    /\ \E accepted \in BOOLEAN :
          LET from == ctx.user_token_account
              to == ctx.swap_token_account
              amount == TransferInAmount(args)
              res == TransferResult(bal, from, amount, accepted)
          IN  /\ cpi' = Append(cpi, Invocation("TransferIn", "token", from, to,
                                  amount, ctx.user, <<>>, res,
                                  IF res = "Ok" THEN amount ELSE 0,
                                  IF res = "Ok" THEN amount ELSE 0))
              /\ StepEnds(res, "TransferIn", "NetTransferred",
                          IF res = "Ok" THEN TransferEffect(bal, from, to, amount)
                          ELSE bal,
                          lamports)
    /\ UNCHANGED <<swap_account, args, ctx, loaded, locals, snap, lastOp, calls,
                   init_args, operand, computed>>

\* The router: it draws the amount its route payload names from the source
\* account, and fails when the account holds less or when it chooses to.
RouterResult(b, source, payload, accepted) ==
    IF accepted /\ b[source] >= payload THEN "Ok" ELSE "RouterError"

\* lib.rs 135-161
UserLeg ==
    /\ pc = "NetTransferred"
    /\ \E accepted \in BOOLEAN, out \in RouterOutputs :
          LET source == ctx.swap_token_account
              res == RouterResult(bal, source, args.route_data, accepted)
          IN  /\ cpi' = Append(cpi, Invocation("UserLeg", JUPITER_PROGRAM_ID,
                                  source, "user_sol_account", args.route_data,
                                  ctx.user, <<>>, res,
                                  IF res = "Ok" THEN args.route_data ELSE 0,
                                  IF res = "Ok" THEN out ELSE 0))
              /\ StepEnds(res, "UserLeg", "UserConverted",
                          IF res = "Ok"
                          THEN [bal EXCEPT ![source] = @ - args.route_data]
                          ELSE bal,
                          IF res = "Ok" THEN lamports + out ELSE lamports)
    /\ UNCHANGED <<swap_account, args, ctx, loaded, locals, snap, lastOp, calls,
                   init_args, operand, computed>>

\* lib.rs 163-165: the read of user_sol_account.lamports() and its comparison,
\* at the place `at` of the handler.
SlippageCheckAt(at) ==
    /\ pc = at
    /\ StepEnds(Require(SlippageOk(lamports, args.min_output_amount),
                        "SlippageExceeded"),
                "SlippageCheck", "SlippageChecked", bal, lamports)
    /\ UNCHANGED <<swap_account, args, ctx, loaded, locals, snap, cpi, lastOp,
                   calls, init_args, operand, computed>>

SlippageCheckEarly == SlippageCheckAt("NetTransferred")
\* lib.rs 163-165 stand after the user-leg invoke of 136-161.
SlippageCheck == SlippageCheckAt("UserConverted")

\* lib.rs 167-193
CommissionLeg ==
    /\ pc = "SlippageChecked"
    /\ \E accepted \in BOOLEAN, out \in RouterOutputs :
          LET source == ctx.commission_token_account
              destination == ctx.commission_usdc_account
              res == RouterResult(bal, source, args.route_data, accepted)
          IN  /\ cpi' = Append(cpi, Invocation("CommissionLeg", JUPITER_PROGRAM_ID,
                                  source, destination, args.route_data,
                                  ctx.swap_account, <<>>, res,
                                  IF res = "Ok" THEN args.route_data ELSE 0,
                                  IF res = "Ok" THEN out ELSE 0))
              /\ StepEnds(res, "CommissionLeg", "CommissionConverted",
                          IF res = "Ok"
                          THEN [bal EXCEPT ![source] = @ - args.route_data,
                                           ![destination] = @ + out]
                          ELSE bal,
                          lamports)
    /\ UNCHANGED <<swap_account, args, ctx, loaded, locals, snap, lastOp, calls,
                   init_args, operand, computed>>

\* lib.rs 195-218: the balance read, the two shares, the referral transfer.
ReferralTransfer ==
    /\ pc = "CommissionConverted"
    /\ \E accepted \in BOOLEAN :
          LET from == ctx.commission_usdc_account
              to == ctx.referral_usdc_account
              usdc_balance == UsdcBalanceRead(loaded.commission_usdc_account,
                                              bal[from])
              referral_usdc == ReferralShare(usdc_balance)
              admin_usdc == AdminShare(usdc_balance)
              arith == FirstError(<<
                          Require(referral_usdc # None, "CommissionOverflow"),
                          Require(admin_usdc # None, "CommissionOverflow") >>)
              res == IF arith # "Ok" THEN arith
                     ELSE TransferResult(bal, from, referral_usdc, accepted)
          IN  /\ locals' = [locals EXCEPT !.usdc_balance = usdc_balance,
                                          !.referral_usdc = referral_usdc,
                                          !.admin_usdc = admin_usdc]
              /\ cpi' = IF arith # "Ok" THEN cpi
                        ELSE Append(cpi, Invocation("ReferralTransfer", "token",
                                  from, to, referral_usdc, ctx.swap_account,
                                  <<>>, res,
                                  IF res = "Ok" THEN referral_usdc ELSE 0,
                                  IF res = "Ok" THEN referral_usdc ELSE 0))
              /\ StepEnds(res, "ReferralTransfer", "ReferralPaid",
                          IF res = "Ok"
                          THEN TransferEffect(bal, from, to, referral_usdc)
                          ELSE bal,
                          lamports)
    /\ UNCHANGED <<swap_account, args, ctx, loaded, snap, lastOp, calls,
                   init_args, operand, computed>>

\* lib.rs 220-230
AdminTransfer ==
    /\ pc = "ReferralPaid"
    /\ \E accepted \in BOOLEAN :
          LET from == ctx.commission_usdc_account
              to == ctx.admin_usdc_account
              amount == locals.admin_usdc
              res == TransferResult(bal, from, amount, accepted)
          IN  /\ cpi' = Append(cpi, Invocation("AdminTransfer", "token", from, to,
                                  amount, ctx.swap_account, <<>>, res,
                                  IF res = "Ok" THEN amount ELSE 0,
                                  IF res = "Ok" THEN amount ELSE 0))
              /\ StepEnds(res, "AdminTransfer", "Distributed",
                          IF res = "Ok" THEN TransferEffect(bal, from, to, amount)
                          ELSE bal,
                          lamports)
    /\ UNCHANGED <<swap_account, args, ctx, loaded, locals, snap, lastOp, calls,
                   init_args, operand, computed>>

\* lib.rs 232: Ok(())
Return ==
    /\ pc = "Distributed"
    /\ pc' = "Idle"
    /\ result' = "Ok"
    /\ UNCHANGED <<swap_account, bal, lamports, args, ctx, loaded, locals, snap,
                   cpi, failed, lastOp, calls, init_args, operand, computed>>

Next ==
    \/ Initialize
    \/ BeginSwap
    \/ Validate
    \/ TransferIn
    \/ UserLeg
    \/ SlippageCheck
    \/ CommissionLeg
    \/ ReferralTransfer
    \/ AdminTransfer
    \/ Return

Spec == Init /\ [][Next]_vars

\* The instructions as the ledger admits them: account validation of
\* swap_tokens includes the program-id check of lib.rs 343-347.
NextLedger ==
    \/ Initialize
    \/ BeginSwapOnLedger

SpecLedger == Init /\ [][NextLedger]_vars

\* ------------------------------------------------------------ SpecArith
\* The two computations of swap_tokens applied to every WordBits-wide value.
InitArith ==
    /\ swap_account = NoRegistry
    /\ bal = [t \in TokenAccounts |-> 0]
    /\ lamports = 0
    /\ snap = [bal |-> bal, lamports |-> lamports]
    /\ HandlerInit
    /\ operand \in 0..U64Max
    /\ computed = NotComputed

\* lib.rs 109-116 on input_amount = operand
ComputeCommission ==
    /\ ~computed.commission_done
    /\ computed' = [computed EXCEPT
                      !.commission_done = TRUE,
                      !.commission = Commission(operand),
                      !.amount_after_commission = AmountAfterCommission(operand)]
    /\ UNCHANGED <<swap_account, bal, lamports, pc, args, ctx, loaded, locals,
                   result, snap, cpi, failed, lastOp, calls, init_args, operand>>

\* lib.rs 198-205 on usdc_balance = operand
ComputeShares ==
    /\ ~computed.shares_done
    /\ computed' = [computed EXCEPT
                      !.shares_done = TRUE,
                      !.referral_usdc = ReferralShare(operand),
                      !.admin_usdc = AdminShare(operand)]
    /\ UNCHANGED <<swap_account, bal, lamports, pc, args, ctx, loaded, locals,
                   result, snap, cpi, failed, lastOp, calls, init_args, operand>>

NextArith ==
    \/ ComputeCommission
    \/ ComputeShares

SpecArith == InitArith /\ [][NextArith]_vars

\* ------------------------------------------------------------ claims
Steps == {cpi[i].step : i \in 1..Len(cpi)}
Issued(step) == step \in Steps
CpiOf(step) == cpi[CHOOSE i \in 1..Len(cpi) : cpi[i].step = step]

\* The last instruction was a swap_tokens call whose accounts were admitted and
\* whose validations (lib.rs 89-120) have run.
SwapValidated ==
    lastOp = "swap_tokens" /\ failed # "accounts" /\ pc # "Entered"

SwapEnded == lastOp = "swap_tokens" /\ pc = "Idle"

SettlementAccount == Ata(SwapPda, USDC_MINT)

\* C1: for every input_amount >= 1 the commission step yields
\* commission = floor(input_amount / 100) and
\* net_amount = input_amount - commission, the two sum to input_amount, the
\* narrowing to the 64-bit width loses nothing and no CommissionOverflow
\* (None) arises.
C1_CommissionSplit ==
    (computed.commission_done /\ operand >= 1) =>
        /\ computed.commission # None
        /\ computed.amount_after_commission # None
        /\ computed.commission = operand \div 100
        /\ computed.commission \in 0..U64Max
        /\ computed.amount_after_commission = operand - computed.commission
        /\ computed.commission + computed.amount_after_commission = operand

C1_Witness ==
    /\ computed.commission_done
    /\ operand = U64Max
    /\ computed.commission >= 1

\* C2: for every settlement balance C the distribution step yields
\* referral_share = floor(C * 4 / 10) and admin_share = C - referral_share,
\* the two sum to C, and no overflow error (None) arises.
C2_ShareSplit ==
    computed.shares_done =>
        /\ computed.referral_usdc # None
        /\ computed.admin_usdc # None
        /\ computed.referral_usdc = (operand * 4) \div 10
        /\ computed.admin_usdc = operand - computed.referral_usdc
        /\ computed.referral_usdc + computed.admin_usdc = operand

C2_Witness ==
    /\ computed.shares_done
    /\ operand = U64Max
    /\ computed.referral_usdc >= 1

\* C3: the amount split between referral and admin is the settlement account's
\* balance after the commission-leg router call credited it, and after a
\* successful swap the settlement account holds zero.
C3_DistributesRealizedBalance ==
    pc = "Distributed" =>
        /\ locals.usdc_balance =
              snap.bal[SettlementAccount] + CpiOf("CommissionLeg").credited
        /\ bal[SettlementAccount] = 0

\* C4: a successful swap routes exactly net_amount of the source asset to the
\* user-conversion leg and exactly commission to the commission-conversion
\* leg, and the two amounts sum to input_amount.
C4_RoutesNetAndCommission ==
    pc = "Distributed" =>
        /\ CpiOf("UserLeg").moved = locals.amount_after_commission
        /\ CpiOf("CommissionLeg").moved = locals.commission
        /\ CpiOf("UserLeg").moved + CpiOf("CommissionLeg").moved
              = args.input_amount

\* C5: when min_output_amount is greater than what the user-leg conversion
\* credited to the caller's destination account, the call fails with
\* SlippageExceeded and the destination balance is what it was before the call.
C5_SlippageOnRealizedOutput ==
    ( /\ Issued("UserLeg")
      /\ CpiOf("UserLeg").result = "Ok"
      /\ args.min_output_amount > CpiOf("UserLeg").credited
      /\ pc # "UserConverted" ) =>
        /\ pc = "Idle"
        /\ result = "SlippageExceeded"
        /\ lamports = snap.lamports

\* C6: when a step of a swap call fails, the call returns an error, every
\* balance equals its value before the call, and no step runs after the failed
\* one.
C6_FailureIsAtomic ==
    /\ failed # "none" =>
          /\ pc = "Idle"
          /\ result \notin {"Ok", "pending", "none"}
          /\ bal = snap.bal
          /\ lamports = snap.lamports
    /\ \A i \in 1..Len(cpi) :
          cpi[i].result # "Ok" => (i = Len(cpi) /\ failed = cpi[i].step)

\* A failed commission-leg call after a user leg that had moved funds.
C6_Witness ==
    /\ failed = "CommissionLeg"
    /\ pc = "Idle"
    /\ CpiOf("TransferIn").moved > 0
    /\ CpiOf("UserLeg").credited > 0
    /\ bal = snap.bal
    /\ lamports = snap.lamports

\* C7: with admitted accounts, a call with input_amount = 0 fails with
\* InvalidAmount and a call with min_output_amount = 0 (and a positive
\* input_amount, which is checked first) fails with InvalidMinOutAmount; in
\* both cases no transfer or delegated call was issued and no balance changed.
C7_ZeroAmountsRejected ==
    SwapValidated =>
        /\ args.input_amount = 0 => result = "InvalidAmount"
        /\ (args.min_output_amount = 0 /\ args.input_amount > 0) =>
              result = "InvalidMinOutAmount"
        /\ (args.input_amount = 0 \/ args.min_output_amount = 0) =>
              /\ pc = "Idle"
              /\ cpi = <<>>
              /\ bal = snap.bal
              /\ lamports = snap.lamports

C7_Witness ==
    /\ SwapValidated
    /\ args.input_amount > 0
    /\ args.min_output_amount = 0
    /\ result = "InvalidMinOutAmount"

\* C8: with admitted accounts and valid amounts, a call whose source balance is
\* strictly less than input_amount fails with InsufficientBalance before any
\* transfer or delegated call; a call whose balance equals input_amount passes
\* the check and goes on to the transfer.
C8_InsufficientBalanceRejected ==
    LET user_balance == snap.bal[ctx.user_token_account]
        valid == args.input_amount > 0 /\ args.min_output_amount > 0
    IN  SwapValidated =>
            /\ user_balance < args.input_amount =>
                  /\ pc = "Idle"
                  /\ cpi = <<>>
                  /\ bal = snap.bal
                  /\ valid => result = "InsufficientBalance"
            /\ (valid /\ user_balance = args.input_amount) =>
                  /\ result # "InsufficientBalance"
                  /\ pc = "Validated" \/ Issued("TransferIn")

C8_Witness ==
    /\ SwapValidated
    /\ snap.bal[ctx.user_token_account] < args.input_amount
    /\ result = "InsufficientBalance"

\* C9: a swap call that presents a router identity other than the trusted
\* router, or a settlement mint other than the reference asset, fails with
\* InvalidJupiterRoute before any funds move.
C9_WrongIdentityIsInvalidJupiterRoute ==
    ( /\ SwapEnded
      /\ swap_account.init
      /\ \/ ctx.jupiter_program # JUPITER_PROGRAM_ID
         \/ ctx.usdc_mint # USDC_MINT ) =>
        /\ result = "InvalidJupiterRoute"
        /\ cpi = <<>>

\* C10: every invocation that moves funds out of a program-owned account (the
\* two router calls, the two distribution transfers) is signed by the
\* registry's derived address, proven with its derivation seeds, and the
\* registry record holds the tag (bump) those seeds are built from.
C10_ProgramAuthorityProven ==
    \A i \in 1..Len(cpi) :
        cpi[i].source[1] = SwapPda =>
            /\ cpi[i].signer = SwapPda
            /\ cpi[i].signer_seeds # <<>>
            /\ "bump" \in DOMAIN swap_account

\* C11: initialize on a not yet created registry fails with InvalidAdmin when
\* the admin argument differs from the admin signer, with InvalidReferral when
\* the referral argument differs from the referral signer (the admin check
\* comes first), and then leaves no registry; when both match it stores exactly
\* the two supplied identities.
C11_InitializeChecksSigners ==
    (lastOp = "initialize" /\ result # "AccountAlreadyInUse") =>
        /\ init_args.admin # init_args.admin_signer =>
              result = "InvalidAdmin" /\ ~swap_account.init
        /\ ( /\ init_args.admin = init_args.admin_signer
             /\ init_args.referral # init_args.referral_signer ) =>
              result = "InvalidReferral" /\ ~swap_account.init
        /\ ( /\ init_args.admin = init_args.admin_signer
             /\ init_args.referral = init_args.referral_signer ) =>
              /\ result = "Ok"
              /\ swap_account = [init |-> TRUE, admin |-> init_args.admin,
                                 referral |-> init_args.referral]

C11_Witness ==
    /\ lastOp = "initialize"
    /\ init_args.admin = init_args.admin_signer
    /\ init_args.referral # init_args.referral_signer
    /\ result = "InvalidReferral"
    /\ ~swap_account.init

\* C12: once initialize has succeeded, every later initialize call fails and
\* leaves the registry's admin and referral unchanged.
C12_InitializeOnce ==
    [][ swap_account.init =>
          /\ lastOp' = "initialize" => result' \notin {"Ok", "none", "pending"}
          /\ lastOp' = "initialize" => swap_account' = swap_account ]_vars

\* A later initialize with matching signers and another referral, refused.
C12_Witness ==
    /\ lastOp = "initialize"
    /\ swap_account.init
    /\ result = "AccountAlreadyInUse"
    /\ init_args.admin = init_args.admin_signer
    /\ init_args.referral = init_args.referral_signer
    /\ init_args.referral # swap_account.referral

\* C13: whenever the registry exists, its admin and referral identities differ.
C13_AdminIsNotReferral ==
    swap_account.init => swap_account.admin # swap_account.referral

\* C14: once the registry exists, some combination of presented accounts
\* passes the whole account validation of swap_tokens, so that the handler can
\* run to Distributed.
C14_SomeAccountsAreAdmitted ==
    swap_account.init =>
        \E c \in PresentableContexts(swap_account) :
            TryAccounts(c, swap_account, TRUE) = "Ok"

\* The places of one swap_tokens call, in the order of the code.
StepOrder ==
    << "Idle", "Entered", "Validated", "NetTransferred", "UserConverted",
       "SlippageChecked", "CommissionConverted", "ReferralPaid", "Distributed" >>

\* The place at which each invocation is issued.
IssuedAt ==
    [ TransferIn |-> "Validated", UserLeg |-> "NetTransferred",
      CommissionLeg |-> "SlippageChecked",
      ReferralTransfer |-> "CommissionConverted",
      AdminTransfer |-> "ReferralPaid" ]

\* C15: within one swap call the steps occur only in the order Validated,
\* NetTransferred, UserConverted, SlippageChecked, CommissionConverted,
\* Distributed (the two distribution transfers one after the other), none
\* skipped or repeated: every step leads to the next place or ends the call;
\* the validations run before any invocation; each invocation is issued once,
\* at its place; the slippage check runs only after the user-leg call has
\* returned and before the commission-leg call is issued; the distribution
\* transfers are issued only after the commission-leg call has returned Ok.
C15_FixedStepOrder ==
    [][ /\ pc' # pc =>
              \/ pc' = "Idle"
              \/ \E i \in 1..(Len(StepOrder) - 1) :
                    pc = StepOrder[i] /\ pc' = StepOrder[i + 1]
        /\ (pc = "Entered" /\ pc' # pc) => cpi' = <<>>
        /\ (cpi' # cpi /\ cpi' # <<>>) =>
              /\ Len(cpi') = Len(cpi) + 1
              /\ SubSeq(cpi', 1, Len(cpi)) = cpi
              /\ pc = IssuedAt[cpi'[Len(cpi')].step]
              /\ \A i \in 1..Len(cpi) :
                    /\ cpi[i].step # cpi'[Len(cpi')].step
                    /\ cpi[i].result = "Ok"
        /\ (failed' = "SlippageCheck" /\ failed # "SlippageCheck") =>
              /\ pc = "UserConverted"
              /\ cpi[Len(cpi)].step = "UserLeg"
        /\ pc' = "SlippageChecked" =>
              /\ pc \in {"UserConverted", "SlippageChecked"}
              /\ cpi' = cpi
              /\ cpi[Len(cpi)].step = "UserLeg"
              /\ lamports' = lamports
        /\ pc' = "Distributed" =>
              [i \in 1..Len(cpi') |-> cpi'[i].step] =
                 << "TransferIn", "UserLeg", "CommissionLeg",
                    "ReferralTransfer", "AdminTransfer" >> ]_vars

C15_Witness ==
    /\ pc = "Distributed"
    /\ Len(cpi) = 5
    /\ args.min_output_amount = MaxOut

\* C16: once created, the registry never changes: the only step that writes it
\* is an initialize that succeeds on a not yet created registry, and every
\* step of swap_tokens, of a successful call or a failed one, leaves its admin
\* and referral as they were.
C16_RegistryImmutable ==
    [][ /\ swap_account' # swap_account =>
              /\ ~swap_account.init
              /\ lastOp' = "initialize"
              /\ result' = "Ok"
        /\ lastOp' = "swap_tokens" =>
              /\ swap_account'.admin = swap_account.admin
              /\ swap_account'.referral = swap_account.referral ]_vars

\* A swap call has run to its end on an existing registry.
C16_Witness ==
    /\ swap_account = [init |-> TRUE, admin |-> "K1", referral |-> "K2"]
    /\ lastOp = "swap_tokens"
    /\ pc = "Distributed"
    /\ calls = MaxCalls

\* C17: a swap call with input_amount = 1 computes commission 0 and net
\* amount 1 and ends neither with InvalidAmount nor with CommissionOverflow;
\* when the settlement balance to distribute is 0 both shares are 0, both
\* transfers are issued for 0 and no arithmetic error arises.
C17_SmallestAmount ==
    /\ (SwapValidated /\ args.input_amount = 1) =>
          /\ locals.commission = 0
          /\ locals.amount_after_commission = 1
          /\ result \notin {"InvalidAmount", "CommissionOverflow"}
    /\ ( /\ lastOp = "swap_tokens"
         /\ pc \in {"ReferralPaid", "Distributed"}
               \/ failed \in {"ReferralTransfer", "AdminTransfer"}
               \/ (pc = "Idle" /\ result = "Ok")
         /\ locals.usdc_balance = 0 ) =>
          /\ locals.referral_usdc = 0
          /\ locals.admin_usdc = 0
          /\ CpiOf("ReferralTransfer").amount = 0
          /\ Issued("AdminTransfer") => CpiOf("AdminTransfer").amount = 0
          /\ result # "CommissionOverflow"

\* A call with input_amount = 1 has distributed a zero settlement balance and
\* returned Ok.
C17_Witness ==
    /\ lastOp = "swap_tokens"
    /\ pc = "Idle"
    /\ result = "Ok"
    /\ args.input_amount = 1
    /\ locals.commission = 0
    /\ locals.usdc_balance = 0
    /\ Issued("AdminTransfer")

\* C18: in every swap call whose accounts were admitted, swap_token_account and
\* commission_token_account are one and the same account, the associated
\* account of (registry authority, input mint); the user-leg and the
\* commission-leg router calls name it as their source, and it is the account
\* the caller's transfer was paid into.
C18_OneHoldingAccount ==
    (lastOp = "swap_tokens" /\ failed # "accounts") =>
        /\ ctx.swap_token_account = Ata(ctx.swap_account, ctx.input_token_mint)
        /\ ctx.commission_token_account = ctx.swap_token_account
        /\ Issued("UserLeg") =>
              /\ CpiOf("UserLeg").source = ctx.swap_token_account
              /\ CpiOf("UserLeg").source = CpiOf("TransferIn").destination
        /\ Issued("CommissionLeg") =>
              /\ CpiOf("CommissionLeg").source = CpiOf("UserLeg").source
              /\ CpiOf("CommissionLeg").source = CpiOf("TransferIn").destination

\* Both router calls went through, on the one holding account.
C18_Witness ==
    /\ lastOp = "swap_tokens"
    /\ Issued("CommissionLeg")
    /\ CpiOf("UserLeg").result = "Ok"
    /\ CpiOf("CommissionLeg").result = "Ok"
    /\ CpiOf("CommissionLeg").source = Ata(SwapPda, InputMint)
    /\ CpiOf("CommissionLeg").moved > 0

\* The invocations of the call that take from the caller's source account.
UserDebits == {i \in 1..Len(cpi) : cpi[i].source = ctx.user_token_account}

=============================================================================
